---- MODULE Spec2Model ----
(***************************************************************************)
(* Scraping and data-normalisation pipeline of the product catalog:        *)
(* CiscoMerakiScraper (utils/scarper.py) writing into ProductLoader        *)
(* (utils/product_loader.py), driven by the Admin Tools page.              *)
(*                                                                         *)
(* A product record is a function from the names of the fields it has to   *)
(* their values (a Python dict).  A display name is the sequence of its    *)
(* whitespace-delimited tokens.  A date text is a record [fmt, word, a, b, *)
(* c]: the shape it is written in and either its word or its three         *)
(* numerals in the order they are written.  Time is an integer clock:      *)
(* midnight of calendar day d is instant 2*d.                              *)
(***************************************************************************)
EXTENDS Integers, Sequences, FiniteSets, TLC

VARIABLES
    file,           \* data/products_<category>.json: category -> list of records
    cache,          \* st.cache_data entries of load_json_file, keyed by filename
    products,       \* ProductLoader.products: the in-memory product set
    now,            \* datetime.now()
    pc,             \* position of the (single-threaded) script run
    pendingDelay,   \* a fetch has succeeded and time.sleep has not run since
    eol_data,       \* update_product_database_with_eol: the scraped EOL map
    eolNow,         \* the clock value the EOL-table scrape derived statuses at
    models,         \* scrape_all_mr_datasheets: the model list
    i,              \* scrape_all_mr_datasheets: index of the current model
    specs,          \* scrape_all_mr_datasheets: the current ScrapedRecord
    updated_count,  \* the running count of either flow
    category,       \* update_product_database_with_eol: index of the category
    curList,        \* update_product_database_with_eol: the list being iterated
    k,              \* update_product_database_with_eol: index in curList
    ret,            \* what the last flow handed to its caller
    outcomes,       \* history: outcome of every fetch of the current flow
    writes,         \* history: number of store writes of the current flow
    startFile,      \* history: the persisted store when the current flow began
    runs,           \* history: number of flows started so far
    args,           \* the arguments of a helper applied on its own
    result,         \* what that helper returned
    urls,           \* history: the URL of every fetch of the current flow
    delays,         \* history: the length of every time.sleep of the current flow
    rate_limit_delay, \* the rate_limit_delay of this script run's scraper
    saved,          \* history: the delay last saved in the settings
    user_doc,       \* the Firestore document of the user: login_attempts, locked_until
    session_state,  \* st.session_state of the browser session
    login_call,     \* login(): its position, the password given, what it returned
    failures        \* history: failed password attempts since the counter last began

vars == <<file, cache, products, now, pc, pendingDelay, eol_data, eolNow, models,
          i, specs, updated_count, category, curList, k, ret, outcomes, writes,
          startFile, runs, args, result,
          urls, delays, rate_limit_delay, saved,
          user_doc, session_state, login_call, failures>>

(***************************************************************************)
(* Bounds of the model                                                     *)
(***************************************************************************)
MaxRuns == 2     \* flows started in one behaviour
MaxNow == 4      \* the clock runs from StartNow to MaxNow
MaxDay == 3      \* calendar days 1..MaxDay appear in date texts
MaxRows == 2     \* data rows of the EOL table
MaxLinks == 2    \* anchors of the MR index page

None == "None"   \* Python's None where the other values are strings

(***************************************************************************)
(* Dictionaries                                                            *)
(***************************************************************************)
EmptyDict == [f \in {} |-> None]

\* dict.get(key, default)
Get(d, key, default) == IF key \in DOMAIN d THEN d[key] ELSE default

\* d.update(u), {**d, **u}: per key, u wins
Update(d, u) ==
    [f \in (DOMAIN d) \cup (DOMAIN u) |-> IF f \in DOMAIN u THEN u[f] ELSE d[f]]

\* d[key] = value
Put(d, key, value) == Update(d, [f \in {key} |-> value])

(***************************************************************************)
(* Strings                                                                 *)
(***************************************************************************)
\* str.lower() on the strings of the model
Lower(s) ==
    CASE s = "MR20" -> "mr20"
      [] s = "MR46" -> "mr46"
      [] s = "MR99" -> "mr99"
      [] s = "MX64" -> "mx64"
      [] s = "MR" -> "mr"
      [] s = "Meraki" -> "meraki"
      [] s = "Legacy" -> "legacy"
      [] s = "MS225-48FP" -> "ms225-48fp"
      [] s = "N/A" -> "n/a"
      [] s = "TBD" -> "tbd"
      [] s = "Tbd" -> "tbd"
      [] s = "TBA" -> "tba"
      [] OTHER -> s

(***************************************************************************)
(* Date & Status Normaliser                                                *)
(***************************************************************************)
Days == 1..MaxDay

\* A text: fmt is "word" for a text that is not three numerals, and else the
\* way the numerals a, b, c are joined
Text(fmt, word, a, b, c) == [fmt |-> fmt, word |-> word, a |-> a, b |-> b, c |-> c]

Word(w) == Text("word", w, 0, 0, 0)
Long(a, b, c) == Text("long", "", a, b, c)      \* '<name of month a> b, c'
Slash(a, b, c) == Text("slash", "", a, b, c)    \* 'a/b/c'
Dash(a, b, c) == Text("dash", "", a, b, c)      \* 'a-b-c'
Dot(a, b, c) == Text("dot", "", a, b, c)        \* 'a.b.c'

NoDate == Text("none", "", 0, 0, 0)             \* None
IsoDate(d) == Dash(2026, 1, d)                  \* '2026-01-dd'

\* The formats datetime.strptime is tried with, in order
DateFormats == <<"%B %d, %Y", "%m/%d/%Y", "%Y-%m-%d", "%d.%m.%Y">>

\* The texts a date cell of the EOL table can hold
DateTexts ==
    {Word(""), Word("n/a"), Word("garbled"), Slash(13, 1, 2026)}
    \cup {Long(1, d, 2026) : d \in Days} \cup {Slash(1, d, 2026) : d \in Days}
    \cup {IsoDate(d) : d \in Days} \cup {Dot(d, 1, 2026) : d \in Days}

\* calendar.monthrange: the number of days of month m of year y
DaysInMonth(y, m) ==
    IF m \in {4, 6, 9, 11} THEN 30
    ELSE IF m # 2 THEN 31
    ELSE IF y % 4 = 0 /\ (y % 100 # 0 \/ y % 400 = 0) THEN 29
    ELSE 28

\* the ValueError of datetime.strptime and datetime.fromisoformat
ValueError == [ok |-> FALSE, y |-> 0, m |-> 0, d |-> 0]

\* datetime(y, m, d), for a year written with four digits
DateTime(y, m, d) ==
    IF y \in 1000..9999 /\ m \in 1..12 /\ d \in 1..DaysInMonth(y, m)
    THEN [ok |-> TRUE, y |-> y, m |-> m, d |-> d]
    ELSE ValueError

\* Mutant of strptime: the slash format read as day/month/year
strptimeDayFirst(date_str, fmt) ==
    CASE fmt = "%B %d, %Y" /\ date_str.fmt = "long" ->
             DateTime(date_str.c, date_str.a, date_str.b)
      [] fmt = "%m/%d/%Y" /\ date_str.fmt = "slash" ->
             DateTime(date_str.c, date_str.b, date_str.a)
      [] fmt = "%Y-%m-%d" /\ date_str.fmt = "dash" ->
             DateTime(date_str.a, date_str.b, date_str.c)
      [] fmt = "%d.%m.%Y" /\ date_str.fmt = "dot" ->
             DateTime(date_str.c, date_str.b, date_str.a)
      [] OTHER -> ValueError

\* datetime.strptime(date_str, fmt)
strptime(date_str, fmt) ==
    CASE fmt = "%B %d, %Y" /\ date_str.fmt = "long" ->
             DateTime(date_str.c, date_str.a, date_str.b)
      [] fmt = "%m/%d/%Y" /\ date_str.fmt = "slash" ->
             DateTime(date_str.c, date_str.a, date_str.b)
      [] fmt = "%Y-%m-%d" /\ date_str.fmt = "dash" ->
             DateTime(date_str.a, date_str.b, date_str.c)
      [] fmt = "%d.%m.%Y" /\ date_str.fmt = "dot" ->
             DateTime(date_str.c, date_str.b, date_str.a)
      [] OTHER -> ValueError

\* dt.strftime('%Y-%m-%d')
strftime(dt) == Dash(dt.y, dt.m, dt.d)

\* the loop of _parse_date over the formats, from format n on
RECURSIVE TryFormats(_, _)
TryFormats(date_str, n) ==
    IF n > Len(DateFormats) THEN date_str
    ELSE IF strptime(date_str, DateFormats[n]).ok
         THEN strftime(strptime(date_str, DateFormats[n]))
         ELSE TryFormats(date_str, n + 1)

\* Mutant of IsPlaceholder: the tokens compared without lowercasing
IsPlaceholderCased(date_str) ==
    date_str.fmt = "word" /\ date_str.word \in {"n/a", "tbd", "-"}

\* date_str.lower() in ['n/a', 'tbd', '-']
IsPlaceholder(date_str) ==
    date_str.fmt = "word" /\ Lower(date_str.word) \in {"n/a", "tbd", "-"}

\* _parse_date
_parse_date(date_str) ==
    IF date_str = Word("") \/ IsPlaceholder(date_str) THEN NoDate
    ELSE TryFormats(date_str, 1)

\* bool(date) of an Optional[str]
Truthy(date) == date # NoDate /\ date # Word("")

\* Mutant of fromisoformat: a day/month/year text with slashes is read too
fromisoformatLenient(date) ==
    IF date.fmt = "dash" THEN DateTime(date.a, date.b, date.c)
    ELSE IF date.fmt = "slash" THEN DateTime(date.c, date.b, date.a)
    ELSE ValueError

\* datetime.fromisoformat(date)
fromisoformat(date) ==
    IF date.fmt = "dash" THEN DateTime(date.a, date.b, date.c) ELSE ValueError

\* datetime.fromisoformat(date) raises unless the text is an ISO date
IsIso(date) == fromisoformat(date).ok

\* the day count of a date from 2026-01-00 on, in the order of the calendar
Ordinal(dt) == (dt.y - 2026) * 372 + (dt.m - 1) * 31 + dt.d

\* datetime.fromisoformat('YYYY-MM-DD'): midnight of that day
Midnight(d) == 2 * d

\* Mutant of EosBefore: the comparison the wrong way round
EosAfter(eos_dt, today) == eos_dt > today

\* the comparison of _determine_status
EosBefore(eos_dt, today) == eos_dt < today

\* _determine_status, with datetime.now() as the parameter today
_determine_status(eol_announced, eos_date, today) ==
    IF ~Truthy(eos_date) THEN "Active"
    ELSE IF ~IsIso(eos_date) THEN "Active"
    ELSE IF EosBefore(Midnight(Ordinal(fromisoformat(eos_date))), today)
         THEN "End of Sale"
    ELSE IF Truthy(eol_announced) THEN "EOL Announced"
    ELSE "Active"

Statuses == {"Active", "EOL Announced", "End of Sale"}

\* The clock at start: midday of calendar day 1
StartNow == Midnight(1) + 1

(***************************************************************************)
(* Model/SKU Recogniser                                                    *)
(***************************************************************************)
\* The match of (MR|MX|MS|MV|MT)\d+[A-Z]*(-\d+[A-Z]*)? inside one token
ModelInToken(token) ==
    CASE token \in {"MR20", "MR46", "MR99", "MX64", "MS225-48FP"} -> token
      [] OTHER -> None

RECURSIVE FirstModel(_, _)
FirstModel(tokens, n) ==
    IF n > Len(tokens) THEN None
    ELSE IF ModelInToken(tokens[n]) # None THEN ModelInToken(tokens[n])
    ELSE FirstModel(tokens, n + 1)

\* Mutant of _extract_model_number: a name without a model code is its own key
ModelOrName(product_name) ==
    IF FirstModel(product_name, 1) # None
    THEN FirstModel(product_name, 1)
    ELSE product_name[1]

\* _extract_model_number: re.search returns the leftmost match
_extract_model_number(product_name) == FirstModel(product_name, 1)

\* The match of MR\d+[A-Z]* inside one token
MRInToken(token) ==
    CASE token \in {"MR20", "MR46", "MR99"} -> token
      [] OTHER -> None

RECURSIVE FirstMR(_, _)
FirstMR(tokens, n) ==
    IF n > Len(tokens) THEN None
    ELSE IF MRInToken(tokens[n]) # None THEN MRInToken(tokens[n])
    ELSE FirstMR(tokens, n + 1)

\* The parts of a SKU token between its dashes
TokenParts(tok) ==
    CASE tok = "LIC-ENT-3YR" -> {"LIC", "ENT", "3YR"}
      [] tok = "LIC-SEC-1YR" -> {"LIC", "SEC", "1YR"}
      [] tok = "LIC-ENT" -> {"LIC", "ENT"}
      [] tok = "LIC-ADV-5YR" -> {"LIC", "ADV", "5YR"}
      [] tok = "LIC-3YR" -> {"LIC", "3YR"}
      [] tok = "LIC-ENT-SEC-1YR" -> {"LIC", "ENT", "SEC", "1YR"}
      [] tok = "MR20-HW" -> {"MR20", "HW"}
      [] tok = "MR46-HW" -> {"MR46", "HW"}
      [] tok = "MR99-HW" -> {"MR99", "HW"}
      [] OTHER -> {tok}

\* kw in tok
Has(tok, kw) == kw \in TokenParts(tok)

\* the token matches LIC-[A-Z0-9-]+
IsLicense(tok) == Has(tok, "LIC")

\* Mutant of LicenseKey: a token without a duration is taken as a 1-year one
LicenseKeyGuessing(lic_sku) ==
    IF Has(lic_sku, "ENT")
    THEN CASE Has(lic_sku, "3YR") -> "3_year_ent"
           [] Has(lic_sku, "5YR") -> "5_year_ent"
           [] OTHER -> "1_year_ent"
    ELSE IF Has(lic_sku, "SEC") \/ Has(lic_sku, "ADV")
    THEN CASE Has(lic_sku, "3YR") -> "3_year_adv"
           [] Has(lic_sku, "5YR") -> "5_year_adv"
           [] OTHER -> "1_year_adv"
    ELSE None

\* the key a license token is stored under, None when it is dropped
LicenseKey(lic_sku) ==
    IF Has(lic_sku, "ENT")
    THEN CASE Has(lic_sku, "1YR") -> "1_year_ent"
           [] Has(lic_sku, "3YR") -> "3_year_ent"
           [] Has(lic_sku, "5YR") -> "5_year_ent"
           [] OTHER -> None
    ELSE IF Has(lic_sku, "SEC") \/ Has(lic_sku, "ADV")
    THEN CASE Has(lic_sku, "1YR") -> "1_year_adv"
           [] Has(lic_sku, "3YR") -> "3_year_adv"
           [] Has(lic_sku, "5YR") -> "5_year_adv"
           [] OTHER -> None
    ELSE None

RECURSIVE Licenses(_, _, _)
Licenses(text, n, acc) ==
    IF n > Len(text) THEN acc
    ELSE IF IsLicense(text[n]) /\ LicenseKey(text[n]) # None
         THEN Licenses(text, n + 1, Put(acc, LicenseKey(text[n]), text[n]))
         ELSE Licenses(text, n + 1, acc)

\* the hardware SKU of a model, upper-cased
HwSku(model) ==
    CASE model = "MR20" -> "MR20-HW"
      [] model = "MR46" -> "MR46-HW"
      [] model = "MR99" -> "MR99-HW"
      [] model = "MX64" -> "MX64-HW"
      [] OTHER -> None

\* _extract_skus_from_page over the page text (a sequence of tokens):
\* the dict {hardware, licenses}; None is the record with found = FALSE
_extract_skus_from_page(text, model) ==
    LET hardware == IF \E n \in 1..Len(text) : text[n] = HwSku(model)
                    THEN HwSku(model) ELSE None
        licenses == Licenses(text, 1, EmptyDict)
    IN  [found |-> hardware # None \/ licenses # EmptyDict,
         hardware |-> hardware, licenses |-> licenses]

(***************************************************************************)
(* HTML Field Extractor                                                    *)
(***************************************************************************)
\* The label -> field dictionary of _map_spec_name, in its order
SpecMapping ==
    << <<"Wi-Fi Standard", "wifi_standard">>,
       <<"Maximum Data Rate", "max_data_rate">>,
       <<"Spatial Streams", "spatial_streams">>,
       <<"Frequency Bands", "frequency_bands">>,
       <<"PoE Requirement", "poe_requirement">>,
       <<"Power Consumption", "max_power_consumption">>,
       <<"Ethernet Ports", "ethernet_ports">>,
       <<"Dimensions", "dimensions">>,
       <<"Weight", "weight">>,
       <<"Operating Temperature", "operating_temp">>,
       <<"Firewall Throughput", "firewall_throughput">>,
       <<"VPN Throughput", "vpn_throughput">>,
       <<"Recommended Users", "recommended_users">>,
       <<"Total Ports", "total_ports">>,
       <<"PoE Budget", "poe_budget">>,
       <<"Switching Capacity", "switching_capacity">> >>

\* key.lower() in raw_name.lower(), on the labels of the model
LabelContains(raw_name, key) ==
    CASE raw_name = "Wi-Fi Standard" -> key = "Wi-Fi Standard"
      [] raw_name = "PoE Requirement" -> key = "PoE Requirement"
      [] raw_name = "wi-fi standard" -> key = "Wi-Fi Standard"
      [] raw_name = "PoE Budget / Power Consumption" ->
             key \in {"PoE Budget", "Power Consumption"}
      [] raw_name = "Lightweight Dimensions" -> key \in {"Weight", "Dimensions"}
      [] OTHER -> FALSE

\* Mutant of MapFrom: the last matching entry of the dictionary wins
MapFromLast(raw_name, n) ==
    LET hits == {m \in n..Len(SpecMapping) : LabelContains(raw_name, SpecMapping[m][1])}
    IN  IF hits = {} THEN None
        ELSE SpecMapping[CHOOSE m \in hits : \A m2 \in hits : m2 <= m][2]

RECURSIVE MapFrom(_, _)
MapFrom(raw_name, n) ==
    IF n > Len(SpecMapping) THEN None
    ELSE IF LabelContains(raw_name, SpecMapping[n][1]) THEN SpecMapping[n][2]
    ELSE MapFrom(raw_name, n + 1)

\* _map_spec_name
_map_spec_name(raw_name) == MapFrom(raw_name, 1)

\* Mutant of ExtractRows: the first row that maps to a field keeps its value
ExtractRowsKeepFirst(rows, n, acc) ==
    LET pairs == {m \in n..Len(rows) :
                     rows[m].ncols >= 2 /\ _map_spec_name(rows[m].key) # None}
        fields == {_map_spec_name(rows[m].key) : m \in pairs}
        first(f) == CHOOSE m \in pairs :
                        /\ _map_spec_name(rows[m].key) = f
                        /\ \A m2 \in pairs :
                               _map_spec_name(rows[m2].key) = f => m <= m2
    IN  [f \in DOMAIN acc \cup fields |->
            IF f \in DOMAIN acc THEN acc[f] ELSE rows[first(f)].value]

\* the table loop of scrape_product_datasheet over the rows of the page
RECURSIVE ExtractRows(_, _, _)
ExtractRows(rows, n, acc) ==
    IF n > Len(rows) THEN acc
    ELSE IF rows[n].ncols >= 2 /\ _map_spec_name(rows[n].key) # None
         THEN ExtractRows(rows, n + 1,
                          Put(acc, _map_spec_name(rows[n].key), rows[n].value))
         ELSE ExtractRows(rows, n + 1, acc)

(***************************************************************************)
(* The documentation site, as the fetches see it                           *)
(***************************************************************************)
\* What session.get can end in: a 2xx answer, a 404 answer, or a transport
\* error or other non-2xx answer
FetchOutcomes == {"ok", "404", "error"}

SeqUpTo(S, n) == UNION {[1..m -> S] : m \in 0..n}

EolRow(product, eol, eos) ==
    [ncols |-> 3, product |-> product, eol_announced |-> eol, eos_date |-> eos]

EolHeader ==
    EolRow(<<"Product">>, Word("garbled"), Word("garbled"))

\* The rows an EOL table is made of
EolRowUniverse ==
    {EolRow(<<"Meraki", "MR46">>, IsoDate(1), Slash(1, 1, 2026)),
     EolRow(<<"MR46">>, Long(1, 1, 2026), Dot(MaxDay, 1, 2026)),
     EolRow(<<"MX64">>, Word("n/a"), Word("")),
     EolRow(<<"MR99">>, IsoDate(1), Word("garbled")),
     EolRow(<<"Legacy", "Z1">>, IsoDate(1), IsoDate(1)),
     [ncols |-> 2, product |-> <<"MR46">>,
      eol_announced |-> IsoDate(1), eos_date |-> Word("")]}

\* The EOL listing page: one table, a header row and the data rows
EolPages == {<<EolHeader>> \o data : data \in SeqUpTo(EolRowUniverse, MaxRows)}

\* The anchor texts of the MR index page
LinkTexts == {<<"MR46", "Datasheet">>, <<"MR99", "Overview">>, <<"Home">>}

IndexPages == SeqUpTo(LinkTexts, MaxLinks)

DsRow(ncols, key, value) == [ncols |-> ncols, key |-> key, value |-> value]

\* The datasheet pages of a model: rows of its tables and the tokens of its text
DatasheetPages(model) ==
    {[rows |-> <<DsRow(2, "Wi-Fi Standard", "802.11ax")>>,
      text |-> <<HwSku(model), "LIC-ENT-3YR">>],
     [rows |-> <<DsRow(1, "Wi-Fi Standard", "n/a"), DsRow(2, "Color", "white"),
                 DsRow(3, "wi-fi standard", "802.11ac")>>,
      text |-> <<"LIC-SEC-1YR", "LIC-ENT">>],
     [rows |-> <<>>, text |-> <<>>]}

(***************************************************************************)
(* Scrapes of one page                                                     *)
(***************************************************************************)
\* the row loop of scrape_meraki_eol_dates
RECURSIVE ParseEolRows(_, _, _, _)
ParseEolRows(rows, n, acc, today) ==
    IF n > Len(rows) THEN acc
    ELSE LET row == rows[n]
             eol_announced_parsed == _parse_date(row.eol_announced)
             eos_date_parsed == _parse_date(row.eos_date)
             status == _determine_status(eol_announced_parsed, eos_date_parsed, today)
             model == _extract_model_number(row.product)
         IN  IF row.ncols >= 3 /\ model # None
             THEN ParseEolRows(rows, n + 1,
                      Put(acc, Lower(model),
                          [eol_announced |-> eol_announced_parsed,
                           eos_date |-> eos_date_parsed,
                           status |-> status,
                           full_name |-> row.product]),
                      today)
             ELSE ParseEolRows(rows, n + 1, acc, today)

\* Mutant of scrape_meraki_eol_dates: a failed fetch is raised to the caller
EolDatesRaising(outcome, page, today) ==
    IF outcome = "ok"
    THEN [kind |-> "value", value |-> ParseEolRows(Tail(page), 1, EmptyDict, today)]
    ELSE [kind |-> "raised", value |-> EmptyDict]

\* what scrape_meraki_eol_dates returns to its caller
scrape_meraki_eol_dates(outcome, page, today) ==
    IF outcome = "ok"
    THEN [kind |-> "value", value |-> ParseEolRows(Tail(page), 1, EmptyDict, today)]
    ELSE [kind |-> "value", value |-> EmptyDict]

NoSpecs == EmptyDict    \* the None of scrape_product_datasheet

\* the ScrapedRecord scrape_product_datasheet assembles from a fetched page
AssembleSpecs(cat, model, page, today) ==
    LET base == [f \in {"model", "datasheet_url", "scraped_at"} |->
                    CASE f = "model" -> model
                      [] f = "datasheet_url" -> <<cat, model>>
                      [] f = "scraped_at" -> today]
        fields == ExtractRows(page.rows, 1, base)
        skus == _extract_skus_from_page(page.text, model)
    IN  IF skus.found
        THEN Put(Put(fields, "sku_base", skus.hardware), "sku_licenses", skus.licenses)
        ELSE fields

\* Mutant of scrape_product_datasheet: only the 404 gives None, any other
\* failure is raised to the caller
DatasheetRaising(cat, model, outcome, page, today) ==
    CASE outcome = "ok" ->
           [kind |-> "record", value |-> AssembleSpecs(cat, model, page, today)]
      [] outcome = "404" -> [kind |-> "none", value |-> NoSpecs]
      [] OTHER -> [kind |-> "raised", value |-> NoSpecs]

\* what scrape_product_datasheet returns to its caller
scrape_product_datasheet(cat, model, outcome, page, today) ==
    IF outcome = "ok"
    THEN [kind |-> "record", value |-> AssembleSpecs(cat, model, page, today)]
    ELSE [kind |-> "none", value |-> NoSpecs]

\* sorted(list(models)) on the model codes of the model
SortedModels(set) ==
    SelectSeq(<<"MR20", "MR46", "MR99">>, LAMBDA m : m \in set)

\* Mutant of scrape_meraki_mr_models: a failed fetch falls back to a fixed list
MrModelsFallback(outcome, links) ==
    IF outcome = "ok"
    THEN [kind |-> "value",
          value |-> SortedModels({FirstMR(links[n], 1) : n \in 1..Len(links)}
                                 \ {None})]
    ELSE [kind |-> "value", value |-> <<"MR46">>]

\* what scrape_meraki_mr_models returns to its caller
scrape_meraki_mr_models(outcome, links) ==
    IF outcome = "ok"
    THEN [kind |-> "value",
          value |-> SortedModels({FirstMR(links[n], 1) : n \in 1..Len(links)}
                                 \ {None})]
    ELSE [kind |-> "value", value |-> <<>>]

(***************************************************************************)
(* ProductLoader                                                           *)
(***************************************************************************)
\* The categories of load_all_products the pipeline reads or writes, in the
\* order of product_files
ProductFiles == <<"mr", "mx", "ms", "mv">>

Categories == {ProductFiles[n] : n \in 1..Len(ProductFiles)}

\* load_json_file under st.cache_data (its key is the filename alone): the
\* cached entry, and on a miss the file as it is read now
load_json_file(c, f, filename) ==
    IF filename \in DOMAIN c THEN c[filename] ELSE f[filename]

\* load_all_products: every category from load_json_file; c is the cache and
\* f the files (every filename has its entry since ProductLoader.__init__)
load_all_products(c, f) == [cat \in Categories |-> load_json_file(c, f, cat)]

\* get_products_by_category
get_products_by_category(prods, cat) == prods[cat]

NoProduct == EmptyDict    \* the None of get_product_by_id

RECURSIVE FindById(_, _, _, _)
FindById(prods, product_id, c, n) ==
    IF c > Len(ProductFiles) THEN NoProduct
    ELSE IF n > Len(prods[ProductFiles[c]]) THEN FindById(prods, product_id, c + 1, 1)
    ELSE IF Get(prods[ProductFiles[c]][n], "id", None) = product_id
         THEN prods[ProductFiles[c]][n]
         ELSE FindById(prods, product_id, c, n + 1)

\* get_product_by_id
get_product_by_id(prods, product_id) == FindById(prods, product_id, 1, 1)

\* get_all_products: tags every in-memory record with its category
get_all_products(prods) ==
    [cat \in Categories |->
        [n \in 1..Len(prods[cat]) |-> Put(prods[cat][n], "_category_file", cat)]]

\* the update-or-add loop of save_product over data['products']
ReplaceOrAppend(list, product) ==
    IF \E n \in 1..Len(list) : list[n]["id"] = product["id"]
    THEN LET first == CHOOSE n \in 1..Len(list) :
                          /\ list[n]["id"] = product["id"]
                          /\ \A m \in 1..(n - 1) : list[m]["id"] # product["id"]
         IN  [list EXCEPT ![first] = product]
    ELSE Append(list, product)

\* save_product: the file contents it writes
save_product(f, cat, product) ==
    [f EXCEPT ![cat] = ReplaceOrAppend(f[cat], product)]

(***************************************************************************)
(* The store at start                                                      *)
(***************************************************************************)
Product(id, name, cat, sub) ==
    [f \in {"id", "name", "category", "subcategory", "status"} |->
        CASE f = "id" -> id
          [] f = "name" -> name
          [] f = "category" -> cat
          [] f = "subcategory" -> sub
          [] f = "status" -> "Active"]

P_mr46 == Product("mr46", <<"Meraki", "MR46">>, "MR", "Indoor")
P_legacy == Product("ap-legacy", <<"Legacy", "MR99">>, "MR", "Outdoor")
P_mx64 == Put(Product("mx64", <<"Meraki", "MX64">>, "MX", "Branch"),
              "sku_base", "MX64-HW")
\* a record without a display name
P_noname == [f \in {"id", "category"} |-> IF f = "id" THEN "mr20" ELSE "MR"]

Store(mr, mx) ==
    [cat \in Categories |->
        CASE cat = "mr" -> mr [] cat = "mx" -> mx [] OTHER -> <<>>]

InitStores ==
    {Store(mr, <<P_mx64>>) :
        mr \in {<<>>, <<P_mr46>>, <<P_legacy, P_mr46>>, <<P_mr46, P_noname>>}}

(***************************************************************************)
(* State                                                                   *)
(***************************************************************************)
\* self.rate_limit_delay = 2  # seconds between requests
DefaultDelay == 2

\* the URLs the scraper composes, as their path segments
EolUrl == <<"General_Administration", "Meraki_End-of-Life_(EOL)_Product_Dates">>
MrIndexUrl == <<"MR", "Product_Information">>
DatasheetUrl(cat, model) == <<cat, model>>

NoRet == [flow |-> "none", kind |-> "none", value |-> 0]
Running(flow) == [flow |-> flow, kind |-> "running", value |-> 0]
Returned(flow, n) == [flow |-> flow, kind |-> "count", value |-> n]
Raised(flow) == [flow |-> flow, kind |-> "raised", value |-> 0]

NoArgs == [fn |-> "none"]

\* locked_until: None
NoLock == 0

\* the fields of the user document that login reads and writes
UserDoc(attempts, until) == [login_attempts |-> attempts, locked_until |-> until]

\* st.session_state without the keys of a login
NoSession == [authenticated |-> FALSE]

\* no login() in progress
NoCall == [pc |-> "idle", password_ok |-> FALSE, ret |-> "none"]

\* no flow is running and the scraper has fetched nothing yet
AtRest ==
    /\ pc = "idle"
    /\ pendingDelay = FALSE
    /\ eol_data = EmptyDict
    /\ eolNow = 0
    /\ models = <<>>
    /\ i = 0
    /\ specs = EmptyDict
    /\ updated_count = 0
    /\ category = 0
    /\ curList = <<>>
    /\ k = 0
    /\ ret = NoRet
    /\ outcomes = <<>>
    /\ writes = 0
    /\ startFile = file
    /\ urls = <<>>
    /\ delays = <<>>
    /\ rate_limit_delay = DefaultDelay
    /\ saved = DefaultDelay
    /\ user_doc = UserDoc(0, NoLock)
    /\ session_state = NoSession
    /\ login_call = NoCall
    /\ failures = 0

\* ProductLoader.__init__ on the files: every file read once, and cached
Init ==
    /\ file \in InitStores
    /\ cache = file
    /\ products = load_all_products(cache, file)
    /\ now = StartNow
    /\ AtRest
    /\ runs = 0
    /\ args = NoArgs
    /\ result = None

storeVars == <<file, cache, products>>
eolVars == <<eol_data, eolNow, category, curList, k>>
bulkVars == <<models, i, specs>>
histVars == <<outcomes, writes, startFile, runs>>
pureVars == <<args, result>>
authVars == <<user_doc, session_state, login_call, failures>>
scraperVars == <<rate_limit_delay, saved>>

\* Mutant of time_sleep: the delay is left out
NoSleep(pending) == pending

\* time.sleep(self.rate_limit_delay): the delay has elapsed when it returns
time_sleep(pending) == FALSE

\* the scrape function sleeps rate_limit_delay and goes on
Slept ==
    /\ pendingDelay' = time_sleep(pendingDelay)
    /\ delays' = Append(delays, rate_limit_delay)

\* session.get has returned: a successful fetch starts the rate-limit delay
Fetched(url, outcome) ==
    /\ outcomes' = Append(outcomes, outcome)
    /\ urls' = Append(urls, url)
    /\ pendingDelay' = (pendingDelay \/ outcome = "ok")

\* a button's handler starts on an idle page
StartFlow ==
    /\ pc = "idle"
    /\ runs < MaxRuns
    /\ runs' = runs + 1
    /\ rate_limit_delay' = DefaultDelay

(***************************************************************************)
(* Database EOL update: update_product_database_with_eol                   *)
(***************************************************************************)
\* the categories the update walks, in order
EolCategories == <<"mr", "mx", "ms", "mv">>

\* the next category after c whose in-memory list is not empty, 0 if none
NextCategory(prods, c) ==
    LET later == {c2 \in (c + 1)..Len(EolCategories) :
                     Len(get_products_by_category(prods, EolCategories[c2])) > 0}
    IN  IF later = {} THEN 0 ELSE CHOOSE c2 \in later : \A c3 \in later : c2 <= c3

\* Mutant of EolLookup: the name token is not tried
EolLookupIdOnly(data, product_id, model_name) ==
    IF product_id \in DOMAIN data THEN data[product_id] ELSE NoProduct

\* Mutant of EolLookup: the name token is tried before the id
EolLookupNameFirst(data, product_id, model_name) ==
    IF model_name \in DOMAIN data THEN data[model_name]
    ELSE IF product_id \in DOMAIN data THEN data[product_id]
    ELSE NoProduct

\* eol_data.get(product_id) or eol_data.get(model_name); NoProduct when neither
EolLookup(data, product_id, model_name) ==
    IF product_id \in DOMAIN data THEN data[product_id]
    ELSE IF model_name \in DOMAIN data THEN data[model_name]
    ELSE NoProduct

\* Mutant of ApplyEol: the dates are written, the status is not
ApplyEolDatesOnly(product, eol_info) ==
    Put(Put(product, "eol_announced", eol_info.eol_announced),
        "eos_date", eol_info.eos_date)

\* the three assignments of a hit
ApplyEol(product, eol_info) ==
    Put(Put(Put(product, "eol_announced", eol_info.eol_announced),
            "eos_date", eol_info.eos_date),
        "status", eol_info.status)

\* the loop is entered at, or moves on to, category c (0: the loop is over)
EolEnter(prods, c, count) ==
    IF c = 0
    THEN /\ pc' = "done"
         /\ ret' = Returned("eol", count)
         /\ category' = 0
         /\ curList' = <<>>
         /\ k' = 0
    ELSE /\ pc' = "eol_loop"
         /\ ret' = Running("eol")
         /\ category' = c
         /\ curList' = get_products_by_category(prods, EolCategories[c])
         /\ k' = 1

\* "if not eol_data: return 0", else the loop starts
EolCheck(data) ==
    IF data = EmptyDict
    THEN /\ pc' = "done"
         /\ ret' = Returned("eol", 0)
         /\ UNCHANGED <<category, curList, k>>
    ELSE EolEnter(products, NextCategory(products, 0), 0)

\* scrape_meraki_eol_dates up to its time.sleep or, when the fetch fails, up
\* to its return and what the update does with it
EolFetch(outcome, page) ==
    /\ StartFlow
    /\ Fetched(EolUrl, outcome)
    /\ updated_count' = 0
    /\ LET r == scrape_meraki_eol_dates(outcome, page, now)
       IN  IF r.kind = "raised"
           THEN /\ pc' = "done"
                /\ ret' = Raised("eol")
                /\ UNCHANGED eolVars
           ELSE /\ eol_data' = r.value
                /\ eolNow' = now
                /\ IF outcome = "ok"
                   THEN /\ pc' = "eol_sleep"
                        /\ ret' = Running("eol")
                        /\ UNCHANGED <<category, curList, k>>
                   ELSE EolCheck(r.value)
    /\ UNCHANGED <<storeVars, now, bulkVars, writes, startFile, pureVars, authVars, delays,
                   saved>>

\* the time.sleep of scrape_meraki_eol_dates, its return, and the start of the loop
EolSleep ==
    /\ pc = "eol_sleep"
    /\ Slept
    /\ EolCheck(eol_data)
    /\ UNCHANGED <<storeVars, now, eol_data, eolNow, bulkVars, updated_count,
                   histVars, pureVars, authVars, urls, scraperVars>>

\* one iteration of the loop over the products of a category
EolLoopStep ==
    /\ pc = "eol_loop"
    /\ LET product == curList[k]
           cat == EolCategories[category]
           name == Get(product, "name", <<>>)
       IN  IF name = <<>>
           THEN \* ''.split()[-1] raises IndexError
                /\ pc' = "done"
                /\ ret' = Raised("eol")
                /\ UNCHANGED <<storeVars, updated_count, category, curList, k, writes>>
           ELSE LET product_id == Lower(Get(product, "id", ""))
                    model_name == Lower(name[Len(name)])
                    eol_info == EolLookup(eol_data, product_id, model_name)
                    hit == eol_info # NoProduct
                    prods2 == IF hit THEN load_all_products(cache, file) ELSE products
                    count2 == IF hit THEN updated_count + 1 ELSE updated_count
                IN  /\ file' = IF hit
                               THEN save_product(file, cat, ApplyEol(product, eol_info))
                               ELSE file
                    /\ products' = prods2
                    /\ cache' = cache
                    /\ writes' = IF hit THEN writes + 1 ELSE writes
                    /\ updated_count' = count2
                    /\ IF k < Len(curList)
                       THEN /\ k' = k + 1
                            /\ UNCHANGED <<pc, ret, category, curList>>
                       ELSE EolEnter(prods2, NextCategory(prods2, category), count2)
    /\ UNCHANGED <<now, pendingDelay, eol_data, eolNow, bulkVars, outcomes, startFile,
                   runs, pureVars, authVars, urls, delays, scraperVars>>

(***************************************************************************)
(* Bulk MR scrape: scrape_all_mr_datasheets                                *)
(***************************************************************************)
\* Mutant of MergeExisting: the scraped record takes the place of the
\* existing one, keeping its id only
MergeReplacing(existing_product, scraped) ==
    Update([f \in {"id"} |-> existing_product["id"]], scraped)

\* existing_product.update(specs)
MergeExisting(existing_product, scraped) == Update(existing_product, scraped)

\* {'id': ..., 'name': f'Meraki {model}', 'category': 'MR', **specs}
NewProduct(product_id, model, scraped) ==
    Update([f \in {"id", "name", "category"} |->
               CASE f = "id" -> product_id
                 [] f = "name" -> <<"Meraki", model>>
                 [] f = "category" -> "MR"],
           scraped)

\* the record lines 309-325 hand to save_product
Upserted(prods, model, scraped) ==
    LET product_id == Lower(model)
        existing_product == get_product_by_id(prods, product_id)
    IN  IF existing_product # NoProduct
        THEN MergeExisting(existing_product, scraped)
        ELSE NewProduct(product_id, model, scraped)

\* Mutant of Upsert: the record is kept for a later batch, nothing is written
UpsertLater(f, prods, model, scraped) == f

\* the file contents after lines 309-325
Upsert(f, prods, model, scraped) ==
    save_product(f, "mr", Upserted(prods, model, scraped))

\* Mutant of HasRecord: every model counts
AlwaysRecord(scraped) == TRUE

\* "if specs:"
HasRecord(scraped) == scraped # NoSpecs

\* "if not models: return 0", else the loop starts at the first model
BulkCheck(list) ==
    IF list = <<>>
    THEN pc' = "done" /\ ret' = Returned("bulk", 0) /\ i' = 0
    ELSE pc' = "ds_fetch" /\ ret' = Running("bulk") /\ i' = 1

\* Mutant of BulkNext: a model whose scrape gave nothing is tried again
BulkNextRetry(count) ==
    IF specs = NoSpecs
    THEN /\ i' = i
         /\ pc' = "ds_fetch"
         /\ ret' = ret
    ELSE IF i < Len(models)
    THEN /\ i' = i + 1
         /\ pc' = "ds_fetch"
         /\ ret' = ret
    ELSE /\ i' = i
         /\ pc' = "done"
         /\ ret' = Returned("bulk", count)

\* the loop moves on to the next model, or ends
BulkNext(count) ==
    IF i < Len(models)
    THEN /\ i' = i + 1
         /\ pc' = "ds_fetch"
         /\ ret' = ret
    ELSE /\ i' = i
         /\ pc' = "done"
         /\ ret' = Returned("bulk", count)

\* scrape_meraki_mr_models up to its time.sleep or, when the fetch fails, up
\* to its return and what the bulk scrape does with it
MrFetch(outcome, links) ==
    /\ StartFlow
    /\ Fetched(MrIndexUrl, outcome)
    /\ updated_count' = 0
    /\ LET r == scrape_meraki_mr_models(outcome, links)
       IN  IF r.kind = "raised"
           THEN pc' = "done" /\ ret' = Raised("bulk") /\ UNCHANGED <<models, i>>
           ELSE /\ models' = r.value
                /\ IF outcome = "ok"
                   THEN pc' = "mr_sleep" /\ ret' = Running("bulk") /\ i' = 0
                   ELSE BulkCheck(r.value)
    /\ UNCHANGED <<storeVars, now, eolVars, specs, writes, startFile, pureVars, authVars,
                   delays, saved>>

\* the time.sleep of scrape_meraki_mr_models, its return, and the start of the loop
MrSleep ==
    /\ pc = "mr_sleep"
    /\ Slept
    /\ BulkCheck(models)
    /\ UNCHANGED <<storeVars, now, eolVars, models, specs, updated_count, histVars,
                   pureVars, authVars, urls, scraperVars>>

\* scrape_product_datasheet('MR', model) up to its return or its time.sleep
DsFetch(outcome, page) ==
    /\ pc = "ds_fetch"
    /\ Fetched(DatasheetUrl("MR", models[i]), outcome)
    /\ LET r == scrape_product_datasheet("MR", models[i], outcome, page, now)
       IN  /\ specs' = r.value
           /\ pc' = CASE r.kind = "record" -> "ds_sleep"
                      [] r.kind = "none" -> "ds_merge"
                      [] OTHER -> "done"
           /\ ret' = IF r.kind \in {"record", "none"} THEN ret ELSE Raised("bulk")
    /\ UNCHANGED <<storeVars, now, eolVars, models, i, updated_count, writes,
                   startFile, runs, pureVars, authVars, delays, scraperVars>>

DsFetchStep ==
    /\ pc = "ds_fetch"
    /\ \E outcome \in FetchOutcomes :
          \E page \in DatasheetPages(models[i]) : DsFetch(outcome, page)

\* the time.sleep of scrape_product_datasheet
DsSleep ==
    /\ pc = "ds_sleep"
    /\ Slept
    /\ pc' = "ds_merge"
    /\ UNCHANGED <<storeVars, now, eolVars, bulkVars, updated_count, ret, histVars,
                   pureVars, authVars, urls, scraperVars>>

\* lines 308-327: the merge or creation, the save, the count
DsMerge ==
    /\ pc = "ds_merge"
    /\ IF HasRecord(specs)
       THEN /\ file' = Upsert(file, products, models[i], specs)
            /\ products' = load_all_products(cache, file')
            /\ writes' = writes + 1
            /\ updated_count' = updated_count + 1
            /\ BulkNext(updated_count + 1)
       ELSE /\ UNCHANGED <<file, products, writes, updated_count>>
            /\ BulkNext(updated_count)
    /\ UNCHANGED <<cache, now, pendingDelay, eolVars, models, specs, outcomes,
                   startFile, runs, pureVars, authVars, urls, delays, scraperVars>>

(***************************************************************************)
(* Single-datasheet scrape from the Admin Tools page                       *)
(***************************************************************************)
\* the (category, model) pairs the operator enters
SingleInputs == {<<"MR", "MR46">>, <<"MX", "MX64">>}

\* scrape_product_datasheet(category, model) up to its return or its time.sleep
OneFetch(input, outcome, page) ==
    /\ StartFlow
    /\ Fetched(DatasheetUrl(input[1], input[2]), outcome)
    /\ LET r == scrape_product_datasheet(input[1], input[2], outcome, page, now)
       IN  /\ specs' = r.value
           /\ pc' = IF r.kind = "record" THEN "one_sleep" ELSE "done"
           /\ ret' = [flow |-> "one", kind |-> r.kind, value |-> 0]
    /\ UNCHANGED <<storeVars, now, eolVars, models, i, updated_count, writes,
                   startFile, pureVars, authVars, delays, saved>>

\* the time.sleep of scrape_product_datasheet
OneSleep ==
    /\ pc = "one_sleep"
    /\ Slept
    /\ pc' = "done"
    /\ UNCHANGED <<storeVars, now, eolVars, bulkVars, updated_count, ret, histVars,
                   pureVars, authVars, urls, scraperVars>>

(***************************************************************************)
(* The rest of a script run, the cache, the clock                          *)
(***************************************************************************)
\* A script run of the page, or what is left of it after a button's handler:
\* the tabs read the catalog through get_all_products
PageRun ==
    /\ pc \in {"idle", "done"}
    /\ pc' = "idle"
    /\ products' = get_all_products(products)
    /\ eol_data' = EmptyDict
    /\ eolNow' = 0
    /\ models' = <<>>
    /\ i' = 0
    /\ specs' = EmptyDict
    /\ updated_count' = 0
    /\ category' = 0
    /\ curList' = <<>>
    /\ k' = 0
    /\ ret' = NoRet
    /\ outcomes' = <<>>
    /\ writes' = 0
    /\ startFile' = file
    /\ urls' = <<>>
    /\ delays' = <<>>
    /\ rate_limit_delay' = DefaultDelay
    /\ UNCHANGED <<file, cache, now, pendingDelay, runs, pureVars, authVars, saved>>

\* "Cache leeren": st.cache_data and st.cache_resource are cleared, and
\* get_product_loader builds a new ProductLoader from the files at the top of
\* the next script run, before any handler of that run
ClearCache ==
    /\ pc = "idle"
    /\ cache' = file
    /\ products' = load_all_products(EmptyDict, file)
    /\ rate_limit_delay' = DefaultDelay
    /\ UNCHANGED <<file, now, pc, pendingDelay, eolVars, bulkVars, updated_count,
                   ret, histVars, pureVars, authVars, urls, delays, saved>>

\* time passes between script runs
Tick ==
    /\ pc = "idle"
    /\ now < MaxNow
    /\ now' = now + 1
    /\ UNCHANGED <<storeVars, pc, pendingDelay, eolVars, bulkVars, updated_count,
                   ret, histVars, pureVars, authVars, urls, delays, scraperVars>>

Next ==
    \/ \E outcome \in FetchOutcomes, page \in EolPages : EolFetch(outcome, page)
    \/ EolSleep
    \/ EolLoopStep
    \/ \E outcome \in FetchOutcomes, links \in IndexPages : MrFetch(outcome, links)
    \/ MrSleep
    \/ DsFetchStep
    \/ DsSleep
    \/ DsMerge
    \/ \E input \in SingleInputs, outcome \in FetchOutcomes :
          \E page \in DatasheetPages(input[2]) : OneFetch(input, outcome, page)
    \/ OneSleep
    \/ PageRun
    \/ ClearCache
    \/ Tick

Spec == Init /\ [][Next]_vars

(***************************************************************************)
(* One bulk MR scrape over index pages of up to MaxBulkLinks anchors       *)
(***************************************************************************)
MaxBulkLinks == 3

BulkLinkTexts ==
    {<<"MR20">>, <<"MR46", "Datasheet">>, <<"MR99", "Overview">>, <<"Home">>}

BulkIndexPages == SeqUpTo(BulkLinkTexts, MaxBulkLinks)

InitBulk ==
    /\ file \in InitStores
    /\ cache = file
    /\ products = load_all_products(cache, file)
    /\ now = StartNow
    /\ AtRest
    /\ runs = MaxRuns - 1
    /\ args = NoArgs
    /\ result = None

BulkMrFetch ==
    \E outcome \in FetchOutcomes, links \in BulkIndexPages : MrFetch(outcome, links)

NextBulk ==
    \/ BulkMrFetch
    \/ MrSleep
    \/ DsFetchStep
    \/ DsSleep
    \/ DsMerge
    \/ PageRun

SpecBulk == InitBulk /\ [][NextBulk]_vars

(***************************************************************************)
(* _determine_status applied on its own                                    *)
(***************************************************************************)
\* what _parse_date hands to _determine_status
ParsedDates == {_parse_date(t) : t \in DateTexts}

Clock == 0..(Midnight(MaxDay) + 1)

InitStatus ==
    /\ file = Store(<<>>, <<>>)
    /\ cache = file
    /\ products = load_all_products(cache, file)
    /\ now = StartNow
    /\ AtRest
    /\ runs = 0
    /\ args \in [fn : {"_determine_status"}, eol_announced : ParsedDates,
                 eos_date : ParsedDates, today : Clock]
    /\ result = None

ApplyStatus ==
    /\ args.fn = "_determine_status"
    /\ result = None
    /\ result' = _determine_status(args.eol_announced, args.eos_date, args.today)
    /\ UNCHANGED <<storeVars, now, pc, pendingDelay, eolVars, bulkVars, updated_count,
                   ret, histVars, args, urls, delays, scraperVars, authVars>>

NextStatus == ApplyStatus

SpecStatus == InitStatus /\ [][NextStatus]_vars

(***************************************************************************)
(* Properties                                                              *)
(***************************************************************************)
EolFields == {"eol_announced", "eos_date", "status"}

HasId(list, id) == \E n \in 1..Len(list) : list[n]["id"] = id

\* the records of a persisted list with the given id, in order
RecordsWithId(list, id) == SelectSeq(list, LAMBDA p : p["id"] = id)

\* the first of them: the one save_product replaces
RecordWithId(list, id) == RecordsWithId(list, id)[1]

\* C1: during and after a Database EOL update, every record the persisted
\* store held when the update began is still there, and each of its fields
\* other than eol_announced, eos_date and status still has the value it had.
C1_EolUpdateKeepsOtherFields ==
    ret.flow = "eol" =>
        \A cat \in Categories : \A n \in 1..Len(startFile[cat]) :
            /\ n <= Len(file[cat])
            /\ \A f \in (DOMAIN startFile[cat][n]) \ EolFields :
                  /\ f \in DOMAIN file[cat][n]
                  /\ file[cat][n][f] = startFile[cat][n][f]

C3_BulkCountsRecords ==
    (pc = "done" /\ ret.flow = "bulk" /\ outcomes # <<>> /\ outcomes[1] = "ok") =>
        /\ ret.kind = "count"
        /\ Len(outcomes) = 1 + Len(models)
        /\ ret.value = Cardinality({n \in 2..Len(outcomes) : outcomes[n] = "ok"})

\* C3 witness: MR20, MR46, MR99 with MR99 answering 404 gives 2.
C3_Witness ==
    /\ pc = "done"
    /\ models = <<"MR20", "MR46", "MR99">>
    /\ outcomes = <<"ok", "ok", "ok", "404">>
    /\ ret = Returned("bulk", 2)

C6_PrerequisiteFailureAborts ==
    (ret.flow \in {"eol", "bulk"} /\ outcomes # <<>> /\ outcomes[1] # "ok") =>
        /\ pc = "done"
        /\ Len(outcomes) = 1
        /\ writes = 0
        /\ file = startFile

C6_Witness ==
    /\ pc = "done"
    /\ ret.flow = "bulk"
    /\ outcomes = <<"404">>
    /\ file["mr"] # <<>>

\* C7: _determine_status always answers one of the three statuses: Active
\* when eos_date is absent, End of Sale when eos_date is a date before now,
\* and, when eos_date is a date after now, EOL Announced if eol_announced is
\* present and Active if it is absent.
C7_DetermineStatusCases ==
    (args.fn = "_determine_status" /\ result # None) =>
        LET a == args.eol_announced
            e == args.eos_date
            t == args.today
        IN  /\ result \in Statuses
            /\ e = NoDate => result = "Active"
            /\ (\E d \in Days : e = IsoDate(d) /\ Midnight(d) < t) =>
                  result = "End of Sale"
            /\ (\E d \in Days : e = IsoDate(d) /\ Midnight(d) > t /\ a # NoDate) =>
                  result = "EOL Announced"
            /\ (\E d \in Days : e = IsoDate(d) /\ Midnight(d) > t /\ a = NoDate) =>
                  result = "Active"

C7_Witness ==
    /\ args.fn = "_determine_status"
    /\ args.eos_date \in {IsoDate(d) : d \in Days}
    /\ args.eol_announced # NoDate
    /\ result = "EOL Announced"

\* C8: every entry of the scraped EOL map carries the status _determine_status
\* gives for its own two dates, and every record a Database EOL update has
\* written carries the two dates and the status of one entry of the map, so
\* its status is the one its dates determine.
C8_StatusFollowsDates ==
    /\ \A key \in DOMAIN eol_data :
          /\ eol_data[key].status \in Statuses
          /\ eol_data[key].status =
                _determine_status(eol_data[key].eol_announced,
                                  eol_data[key].eos_date, eolNow)
    /\ ret.flow = "eol" =>
          \A cat \in Categories : \A n \in 1..Len(file[cat]) :
              (n > Len(startFile[cat]) \/ file[cat][n] # startFile[cat][n]) =>
                  LET p == file[cat][n]
                  IN  /\ EolFields \subseteq DOMAIN p
                      /\ p["status"] =
                            _determine_status(p["eol_announced"], p["eos_date"],
                                              eolNow)
                      /\ \E key \in DOMAIN eol_data :
                            \A f \in EolFields : eol_data[key][f] = p[f]

C8_Witness ==
    /\ ret.flow = "eol"
    /\ writes >= 1
    /\ \E n \in 1..Len(file["mr"]) :
          /\ Get(file["mr"][n], "status", None) = "End of Sale"
          /\ Get(startFile["mr"][n], "status", None) = "Active"

\* C9: whenever the bulk MR flow is about to apply a scraped record, applying
\* it a second time right after the first leaves the same records under its
\* id in the persisted category as applying it once.
C9_UpsertIdempotent ==
    (pc = "ds_merge" /\ HasRecord(specs)) =>
        LET once == Upsert(file, products, models[i], specs)
            reloaded == load_all_products(cache, once)
            twice == Upsert(once, reloaded, models[i], specs)
        IN  RecordsWithId(twice["mr"], Lower(models[i]))
                = RecordsWithId(once["mr"], Lower(models[i]))

\* C10: no fetch is issued while the delay of an earlier successful fetch has
\* not elapsed, in whatever flow the two fetches are.
C10_DelayBeforeNextFetch ==
    [][Len(outcomes') = Len(outcomes) + 1 => ~pendingDelay]_vars

C10_Witness ==
    /\ Len(outcomes) >= 2
    /\ outcomes[Len(outcomes) - 1] = "ok"
    /\ ~pendingDelay

(***************************************************************************)
(* The settings tab and one single-datasheet scrape                        *)
(***************************************************************************)
\* values of the "Rate Limit" slider (min_value=1, max_value=10)
SliderValues == {1, 2, 10}

\* "Einstellungen speichern": a script run in which tabs 2 and 3 read the
\* catalog and tab 4 sets rate_limit_delay on the scraper get_scraper() has
\* just built for it
SaveSettings(rate_limit) ==
    /\ pc \in {"idle", "done"}
    /\ pc' = "idle"
    /\ products' = get_all_products(products)
    /\ eol_data' = EmptyDict
    /\ eolNow' = 0
    /\ models' = <<>>
    /\ i' = 0
    /\ specs' = EmptyDict
    /\ updated_count' = 0
    /\ category' = 0
    /\ curList' = <<>>
    /\ k' = 0
    /\ ret' = NoRet
    /\ outcomes' = <<>>
    /\ writes' = 0
    /\ startFile' = file
    /\ urls' = <<>>
    /\ delays' = <<>>
    /\ rate_limit_delay' = rate_limit
    /\ saved' = rate_limit
    /\ UNCHANGED <<file, cache, now, pendingDelay, runs, pureVars, authVars>>

InitSettings ==
    /\ file \in InitStores
    /\ cache = file
    /\ products = load_all_products(cache, file)
    /\ now = StartNow
    /\ AtRest
    /\ runs = MaxRuns - 1
    /\ args = NoArgs
    /\ result = None

NextSettings ==
    \/ \E rate_limit \in SliderValues : SaveSettings(rate_limit)
    \/ \E input \in SingleInputs, outcome \in FetchOutcomes :
          \E page \in DatasheetPages(input[2]) : OneFetch(input, outcome, page)
    \/ OneSleep
    \/ PageRun

SpecSettings == InitSettings /\ [][NextSettings]_vars

\* C11: in every flow, when N fetches have been issued at least N-1
\* rate-limit delays have been slept, whatever the fetches answered.
C11_DelayBetweenAllFetches ==
    Len(outcomes) >= 1 => Len(delays) >= Len(outcomes) - 1

\* C12: every rate-limit delay a scrape flow sleeps has the length last saved
\* in the settings (the default while nothing has been saved).
C12_SavedDelayIsUsed ==
    \A n \in 1..Len(delays) : delays[n] = saved

(***************************************************************************)
(* One bulk MR scrape of a given index page                                *)
(***************************************************************************)
InitIndex ==
    /\ file \in InitStores
    /\ cache = file
    /\ products = load_all_products(cache, file)
    /\ now = StartNow
    /\ AtRest
    /\ runs = MaxRuns - 1
    /\ args \in [fn : {"scrape_all_mr_datasheets"}, links : BulkIndexPages]
    /\ result = None

\* the index fetch answers with the given page, or fails
IndexMrFetch ==
    /\ args.fn = "scrape_all_mr_datasheets"
    /\ \E outcome \in FetchOutcomes : MrFetch(outcome, args.links)

NextIndex ==
    \/ IndexMrFetch
    \/ MrSleep
    \/ DsFetchStep
    \/ DsSleep
    \/ DsMerge

SpecIndex == InitIndex /\ [][NextIndex]_vars

\* the model codes re.search finds in the anchor texts of a page
Recognized(links) == {FirstMR(links[n], 1) : n \in 1..Len(links)} \ {None}

\* C13: in a bulk MR scrape whose index fetch succeeded, every datasheet
\* fetch is for a model recognized on the index page, no datasheet URL is
\* fetched twice whatever the fetches answered, each fetch has its answer
\* before the next is issued, and when the run is over every recognized model
\* has been fetched exactly once.
C13_EachModelFetchedOnce ==
    (ret.flow = "bulk" /\ outcomes[1] = "ok") =>
        /\ Len(urls) = Len(outcomes)
        /\ \A n \in 2..Len(urls) :
              /\ \E m \in Recognized(args.links) : urls[n] = DatasheetUrl("MR", m)
              /\ \A n2 \in 2..Len(urls) : urls[n2] = urls[n] => n2 = n
        /\ pc = "done" =>
              \A m \in Recognized(args.links) :
                  \E n \in 2..Len(urls) : urls[n] = DatasheetUrl("MR", m)

C13_Witness ==
    /\ pc = "done"
    /\ ret.flow = "bulk"
    /\ Len(args.links) > Cardinality(Recognized(args.links))
    /\ \E n, n2 \in 1..Len(args.links) :
          n # n2 /\ args.links[n] = args.links[n2] /\ FirstMR(args.links[n], 1) # None
    /\ Len(urls) = 3
    /\ \E n \in 2..Len(outcomes) : outcomes[n] # "ok"

\* the models of the list the bulk loop is done with
Processed == IF pc = "done" THEN Len(models) ELSE i - 1

\* C14: in a bulk MR scrape, whenever the loop is done with a model whose
\* scrape returned a record, that record is in the persisted MR collection
\* under the model's id: it is written before the next datasheet fetch is
\* issued, and the number of writes is the number of records obtained so far.
C14_PersistedBeforeNextFetch ==
    (ret.flow = "bulk" /\ pc \in {"ds_fetch", "ds_sleep", "ds_merge", "done"}
        /\ models # <<>>) =>
        /\ \A j \in 1..Processed :
              outcomes[j + 1] = "ok" =>
                  /\ HasId(file["mr"], Lower(models[j]))
                  /\ Get(RecordWithId(file["mr"], Lower(models[j])), "model", None)
                        = models[j]
        /\ writes = Cardinality({j \in 1..Processed : outcomes[j + 1] = "ok"})

C14_Witness ==
    /\ pc = "ds_fetch"
    /\ i = 2
    /\ outcomes = <<"ok", "ok">>
    /\ HasId(file["mr"], Lower(models[1]))
    /\ ~HasId(startFile["mr"], Lower(models[1]))

(***************************************************************************)
(* One bulk MR scrape over stores in which an id occurs in two categories  *)
(***************************************************************************)
\* a record of products_mx.json whose id is the one the bulk scrape derives
\* for MR99
P_stray == Product("mr99", <<"Meraki", "MR99">>, "MX", "Branch")

UpsertStores == InitStores \cup {Store(<<P_mr46>>, <<P_mx64, P_stray>>)}

InitUpsert ==
    /\ file \in UpsertStores
    /\ cache = file
    /\ products = load_all_products(cache, file)
    /\ now = StartNow
    /\ AtRest
    /\ runs = MaxRuns - 1
    /\ args = NoArgs
    /\ result = None

SpecUpsert == InitUpsert /\ [][NextBulk]_vars

\* C15: when the bulk MR flow applies a scraped record, the record persisted
\* under its id in the MR collection is the scraped record merged over the
\* product of that id of the MR category when there is one, and a new record
\* otherwise; the collections of the other categories stay as they are.
C15_LookupWithinCategory ==
    [][(pc = "ds_merge" /\ HasRecord(specs))
       => LET product_id == Lower(models[i])
              in_category == get_products_by_category(products, "mr")
              expected == IF HasId(in_category, product_id)
                          THEN MergeExisting(RecordWithId(in_category, product_id),
                                             specs)
                          ELSE NewProduct(product_id, models[i], specs)
          IN  /\ HasId(file'["mr"], product_id)
              /\ RecordWithId(file'["mr"], product_id) = expected
              /\ \A c \in Categories \ {"mr"} : file'[c] = file[c]]_vars

\* C16: when the bulk MR flow applies a scraped record and its lookup finds
\* no product with the record's id, the persisted MR collection afterwards
\* holds exactly one record with that id, made of the id (the lowercased
\* model), the display name, the category and the scraped fields, and every
\* record that was in the collection before is still there unchanged.
C16_CreateLeavesOthers ==
    [][(/\ pc = "ds_merge"
        /\ HasRecord(specs)
        /\ get_product_by_id(products, Lower(models[i])) = NoProduct)
       => LET product_id == Lower(models[i])
              created == RecordsWithId(file'["mr"], product_id)
          IN  /\ Len(created) = 1
              /\ created[1] = NewProduct(product_id, models[i], specs)
              /\ created[1]["id"] = product_id
              /\ created[1]["name"] = <<"Meraki", models[i]>>
              /\ created[1]["category"] = "MR"
              /\ \A f \in DOMAIN specs : created[1][f] = specs[f]
              /\ Len(file'["mr"]) >= Len(file["mr"])
              /\ \A n \in 1..Len(file["mr"]) : file'["mr"][n] = file["mr"][n]]_vars

(***************************************************************************)
(* One Database EOL update, also over a product whose id and name differ   *)
(***************************************************************************)
\* a record whose id names one model and whose display name ends in another
P_renamed == Product("mr46", <<"Meraki", "MR99">>, "MR", "Indoor")

EolStores == InitStores \cup {Store(<<P_renamed>>, <<P_mx64>>)}

InitEol ==
    /\ file \in EolStores
    /\ cache = file
    /\ products = load_all_products(cache, file)
    /\ now = StartNow
    /\ AtRest
    /\ runs = MaxRuns - 1
    /\ args = NoArgs
    /\ result = None

NextEol ==
    \/ \E outcome \in FetchOutcomes, page \in EolPages : EolFetch(outcome, page)
    \/ EolSleep
    \/ EolLoopStep
    \/ PageRun

SpecEol == InitEol /\ [][NextEol]_vars

\* the record persisted under the product's id carries the dates and the
\* status of the entry
WrittenFrom(cat, product, entry) ==
    /\ HasId(file'[cat], product["id"])
    /\ \A f \in EolFields :
          /\ f \in DOMAIN RecordWithId(file'[cat], product["id"])
          /\ RecordWithId(file'[cat], product["id"])[f] = entry[f]

\* C17: for each product the Database EOL update handles, the entry written
\* to it is the one under its lowercased id when the EOL map has one, even
\* if the map has another entry under the lowercased last token of its name;
\* the entry under the name token is written only when there is none under
\* the id; with neither, nothing is written.
C17_IdBeforeNameToken ==
    [][(pc = "eol_loop" /\ Get(curList[k], "name", <<>>) # <<>>)
       => LET product == curList[k]
              name == product["name"]
              product_id == Lower(product["id"])
              model_name == Lower(name[Len(name)])
              cat == EolCategories[category]
          IN  IF product_id \in DOMAIN eol_data
              THEN WrittenFrom(cat, product, eol_data[product_id])
              ELSE IF model_name \in DOMAIN eol_data
              THEN WrittenFrom(cat, product, eol_data[model_name])
              ELSE file' = file]_vars

C17_Witness ==
    /\ ret.flow = "eol"
    /\ writes >= 1
    /\ {"mr46", "mr99"} \subseteq DOMAIN eol_data
    /\ \E n \in 1..Len(file["mr"]) :
          /\ file["mr"][n]["id"] = "mr46"
          /\ Get(file["mr"][n], "name", <<>>) = <<"Meraki", "MR99">>
          /\ "eos_date" \in DOMAIN file["mr"][n]
          /\ file["mr"][n]["eos_date"] = eol_data["mr46"].eos_date
          /\ eol_data["mr46"].eos_date # eol_data["mr99"].eos_date

\* field f is the same in records a and b: in both with one value, or in neither
SameField(a, b, f) ==
    /\ (f \in DOMAIN a) = (f \in DOMAIN b)
    /\ f \in DOMAIN a => a[f] = b[f]

\* the persisted records whose EOL fields differ from what they were when
\* the flow began
ChangedByRun ==
    {<<cat, n>> \in Categories \X (1..MaxRows + MaxLinks + 2) :
        /\ n <= Len(file[cat])
        /\ \/ n > Len(startFile[cat])
           \/ \E f \in EolFields : ~SameField(file[cat][n], startFile[cat][n], f)}

\* the EOL map has an entry for the product, under its id or its name token
Matches(product) ==
    \/ Lower(Get(product, "id", "")) \in DOMAIN eol_data
    \/ /\ Get(product, "name", <<>>) # <<>>
       /\ Lower(product["name"][Len(product["name"])]) \in DOMAIN eol_data

\* the products of the walked categories that have an entry
Matched ==
    {<<c, n>> \in (1..Len(EolCategories)) \X (1..MaxRows + MaxLinks + 2) :
        /\ n <= Len(get_products_by_category(products, EolCategories[c]))
        /\ Matches(get_products_by_category(products, EolCategories[c])[n])}

\* C18, as claimed: the count a Database EOL update returns is the number of
\* products whose persisted eol_announced, eos_date or status the run changed.
C18_CountsChanged ==
    (pc = "done" /\ ret.flow = "eol" /\ ret.kind = "count") =>
        ret.value = Cardinality(ChangedByRun)

\* C18, amended: the count a Database EOL update returns is the number of
\* products the EOL map has an entry for, each of which the run has written,
\* whether or not the write changed anything.
C18_CountsMatched ==
    (pc = "done" /\ ret.flow = "eol" /\ ret.kind = "count") =>
        /\ ret.value = Cardinality(Matched)
        /\ ret.value = writes

C18_Witness ==
    /\ pc = "done"
    /\ ret.flow = "eol"
    /\ ret.kind = "count"
    /\ ret.value >= 1
    /\ file = startFile

(***************************************************************************)
(* scrape_meraki_eol_dates applied on its own                              *)
(***************************************************************************)
\* the scrape has not been applied yet
NotScraped == [kind |-> "pending", value |-> EmptyDict]

InitEolScrape ==
    /\ file = Store(<<>>, <<>>)
    /\ cache = file
    /\ products = load_all_products(cache, file)
    /\ now = StartNow
    /\ AtRest
    /\ runs = 0
    /\ args \in [fn : {"scrape_meraki_eol_dates"}, outcome : FetchOutcomes,
                 page : EolPages, today : {StartNow, Midnight(MaxDay) + 1}]
    /\ result = NotScraped

ApplyEolScrape ==
    /\ args.fn = "scrape_meraki_eol_dates"
    /\ result = NotScraped
    /\ result' = scrape_meraki_eol_dates(args.outcome, args.page, args.today)
    /\ UNCHANGED <<storeVars, now, pc, pendingDelay, eolVars, bulkVars, updated_count,
                   ret, histVars, args, urls, delays, scraperVars, authVars>>

NextEolScrape == ApplyEolScrape

SpecEolScrape == InitEolScrape /\ [][NextEolScrape]_vars

\* the data rows of a fetched EOL page that have the three columns
EntryRows(page) == {n \in 2..Len(page) : page[n].ncols >= 3}

\* C19: the EOL-table scrape returns a map, never an error; each of its keys
\* is the lowercased model code recognized in the full_name of its entry; a
\* row gives an entry exactly when a model code is recognized in its product
\* name, so a row without one gives none.
C19_KeysAreLowercasedModels ==
    (args.fn = "scrape_meraki_eol_dates" /\ result # NotScraped) =>
        /\ result.kind = "value"
        /\ \A key \in DOMAIN result.value :
              /\ _extract_model_number(result.value[key].full_name) # None
              /\ key = Lower(_extract_model_number(result.value[key].full_name))
        /\ args.outcome = "ok" =>
              /\ \A n \in EntryRows(args.page) :
                    FirstModel(args.page[n].product, 1) = None =>
                        \A key \in DOMAIN result.value :
                            result.value[key].full_name # args.page[n].product
              /\ \A n \in EntryRows(args.page) :
                    FirstModel(args.page[n].product, 1) # None =>
                        Lower(FirstModel(args.page[n].product, 1))
                            \in DOMAIN result.value
              /\ \A key \in DOMAIN result.value :
                    \E n \in EntryRows(args.page) :
                        result.value[key].full_name = args.page[n].product

C19_Witness ==
    /\ args.fn = "scrape_meraki_eol_dates"
    /\ result # NotScraped
    /\ args.outcome = "ok"
    /\ \E n \in EntryRows(args.page) : args.page[n].product = <<"Legacy", "Z1">>
    /\ \E n \in EntryRows(args.page) : args.page[n].product = <<"Meraki", "MR46">>
    /\ DOMAIN result.value = {"mr46"}

(***************************************************************************)
(* The table loop of scrape_product_datasheet applied on its own           *)
(***************************************************************************)
MaxSpecRows == 3

\* the rows a datasheet table is made of
SpecRowUniverse ==
    {DsRow(2, "Wi-Fi Standard", "802.11ax"),
     DsRow(2, "PoE Requirement", "802.3at"),
     DsRow(2, "Color", "white"),
     DsRow(2, "PoE Budget / Power Consumption", "30W"),
     DsRow(3, "Lightweight Dimensions", "1kg"),
     DsRow(2, "wi-fi standard", "802.11n"),
     DsRow(1, "Wi-Fi Standard", "802.11ac")}

InitExtract ==
    /\ file = Store(<<>>, <<>>)
    /\ cache = file
    /\ products = load_all_products(cache, file)
    /\ now = StartNow
    /\ AtRest
    /\ runs = 0
    /\ args \in [fn : {"extract_fields"}, rows : SeqUpTo(SpecRowUniverse, MaxSpecRows)]
    /\ result = NotScraped

ApplyExtract ==
    /\ args.fn = "extract_fields"
    /\ result = NotScraped
    /\ result' = [kind |-> "value", value |-> ExtractRows(args.rows, 1, EmptyDict)]
    /\ UNCHANGED <<storeVars, now, pc, pendingDelay, eolVars, bulkVars, updated_count,
                   ret, histVars, args, urls, delays, scraperVars, authVars>>

NextExtract == ApplyExtract

SpecExtract == InitExtract /\ [][NextExtract]_vars

\* the positions of the dictionary entries whose label is in the raw label
Hits(raw_name) ==
    {m \in 1..Len(SpecMapping) : LabelContains(raw_name, SpecMapping[m][1])}

\* the canonical field of the first of them
FirstHit(raw_name) ==
    SpecMapping[CHOOSE m \in Hits(raw_name) : \A m2 \in Hits(raw_name) : m <= m2][2]

\* the rows of a table that have a label cell and a value cell
PairRows(rows) == {n \in 1..Len(rows) : rows[n].ncols >= 2}

\* C20: the Field Extractor gives, for every row whose raw label contains the
\* label of a dictionary entry, the canonical field of the first such entry in
\* dictionary order, with the value of a row that maps to that field; a row
\* whose label matches no entry adds nothing, and nothing else is in the output.
C20_FirstDictionaryEntryWins ==
    (args.fn = "extract_fields" /\ result # NotScraped) =>
        /\ result.kind = "value"
        /\ \A n \in PairRows(args.rows) :
              Hits(args.rows[n].key) # {} =>
                  FirstHit(args.rows[n].key) \in DOMAIN result.value
        /\ \A f \in DOMAIN result.value :
              \E n \in PairRows(args.rows) :
                  /\ Hits(args.rows[n].key) # {}
                  /\ FirstHit(args.rows[n].key) = f
                  /\ result.value[f] = args.rows[n].value

\* C20 witness: the rows Wi-Fi Standard = 802.11ax and PoE Requirement =
\* 802.3at, and an unrecognized label, give wifi_standard and poe_requirement.
C20_Witness ==
    /\ args.fn = "extract_fields"
    /\ args.rows = <<DsRow(2, "Wi-Fi Standard", "802.11ax"),
                     DsRow(2, "PoE Requirement", "802.3at"),
                     DsRow(2, "Color", "white")>>
    /\ DOMAIN result.value = {"wifi_standard", "poe_requirement"}
    /\ result.value["wifi_standard"] = "802.11ax"
    /\ result.value["poe_requirement"] = "802.3at"

\* the rows of a table, in document order, that map to the canonical field f
RowsFor(rows, f) ==
    {n \in PairRows(rows) : _map_spec_name(rows[n].key) = f}

\* the last of them
LastRowFor(rows, f) ==
    CHOOSE n \in RowsFor(rows, f) : \A n2 \in RowsFor(rows, f) : n2 <= n

\* C21: when several rows of a datasheet map to the same canonical field, the
\* extracted value of the field is the value of the last such row in document
\* order; rows with fewer than two cells are skipped and never change the
\* result, so the fields of the result are those of the rows with two cells.
C21_LastRowWins ==
    (args.fn = "extract_fields" /\ result # NotScraped) =>
        /\ \A f \in DOMAIN result.value :
              /\ RowsFor(args.rows, f) # {}
              /\ result.value[f] = args.rows[LastRowFor(args.rows, f)].value
        /\ \A n \in PairRows(args.rows) :
              _map_spec_name(args.rows[n].key) # None =>
                  _map_spec_name(args.rows[n].key) \in DOMAIN result.value

\* C21 witness: two rows with two cells give wifi_standard, then a row of one
\* cell with the same label follows; the value is that of the second row.
C21_Witness ==
    /\ args.fn = "extract_fields"
    /\ args.rows = <<DsRow(2, "Wi-Fi Standard", "802.11ax"),
                     DsRow(2, "wi-fi standard", "802.11n"),
                     DsRow(1, "Wi-Fi Standard", "802.11ac")>>
    /\ result # NotScraped
    /\ result.value["wifi_standard"] = "802.11n"

(***************************************************************************)
(* _parse_date applied on its own                                          *)
(***************************************************************************)
\* the numerals of the date texts: days, months, a day that is no month, a year
Numerals == {1, 2, 13, 2026}

\* the texts that are not three numerals
Words == {"", "n/a", "N/A", "tbd", "TBD", "Tbd", "-", "TBA", "garbled-text"}

\* the texts _parse_date is applied to
ParseInputs ==
    {Word(w) : w \in Words}
    \cup {Text(fmt, "", a, b, c) :
             fmt \in {"long", "slash", "dash", "dot"},
             a \in Numerals, b \in Numerals, c \in Numerals}

\* no result yet
PendingDate == Text("pending", "", 0, 0, 0)

InitParse ==
    /\ file = Store(<<>>, <<>>)
    /\ cache = file
    /\ products = load_all_products(cache, file)
    /\ now = StartNow
    /\ AtRest
    /\ runs = 0
    /\ args \in [fn : {"_parse_date"}, date_str : ParseInputs]
    /\ result = PendingDate

ApplyParse ==
    /\ args.fn = "_parse_date"
    /\ result = PendingDate
    /\ result' = _parse_date(args.date_str)
    /\ UNCHANGED <<storeVars, now, pc, pendingDelay, eolVars, bulkVars, updated_count,
                   ret, histVars, args, urls, delays, scraperVars, authVars>>

NextParse == ApplyParse

SpecParse == InitParse /\ [][NextParse]_vars

\* the calendar dates of the year of the model
CalendarDates ==
    {D \in [y : {2026}, m : 1..12, d : 1..31] : D.d <= DaysInMonth(D.y, D.m)}

\* a calendar date written in the four supported formats: long
\* month-day-year, slash month/day/year, ISO year-month-day, dot day.month.year
Writings(D) ==
    {Long(D.m, D.d, D.y), Slash(D.m, D.d, D.y), Dash(D.y, D.m, D.d),
     Dot(D.d, D.m, D.y)}

\* the text is a calendar date in one of the four supported formats
IsWritten(text) == \E D \in CalendarDates : text \in Writings(D)

\* the placeholder tokens n/a, tbd and -, in the letter cases of the model
PlaceholderWritings == {Word(w) : w \in {"n/a", "N/A", "tbd", "TBD", "Tbd", "-"}}

\* C22: _parse_date returns None exactly when its input is empty or is one of
\* the placeholder tokens n/a, tbd, - in any letter case; any other input that
\* is in none of the four supported formats is returned unchanged.
C22_NoneOnlyForPlaceholders ==
    (args.fn = "_parse_date" /\ result # PendingDate) =>
        /\ result = NoDate <=>
              (args.date_str = Word("") \/ args.date_str \in PlaceholderWritings)
        /\ (/\ args.date_str # Word("")
            /\ args.date_str \notin PlaceholderWritings
            /\ ~IsWritten(args.date_str)) => result = args.date_str

\* C22 witness: the token N/A, in capitals, gives None
C22_Witness ==
    /\ args.fn = "_parse_date"
    /\ args.date_str = Word("N/A")
    /\ result = NoDate

\* C23: _parse_date maps a calendar date written in any of the four supported
\* formats to the same YYYY-MM-DD text, the ISO writing of that date, and
\* applied to that output it returns it unchanged.
C23_FourFormatsOneIso ==
    (args.fn = "_parse_date" /\ result # PendingDate) =>
        \A D \in CalendarDates :
            args.date_str \in Writings(D) =>
                /\ result = Dash(D.y, D.m, D.d)
                /\ \A w \in Writings(D) : _parse_date(w) = result
                /\ _parse_date(result) = result

\* C23 witness: 01/13/2026 has given 2026-01-13
C23_Witness ==
    /\ args.fn = "_parse_date"
    /\ args.date_str = Slash(1, 13, 2026)
    /\ result = Dash(2026, 1, 13)

(***************************************************************************)
(* _extract_skus_from_page applied on its own                              *)
(***************************************************************************)
MaxSkuTokens == 3

\* the tokens of a page text
SkuTokens ==
    {"MR46-HW", "Meraki", "LIC-ENT-3YR", "LIC-SEC-1YR", "LIC-ADV-5YR", "LIC-ENT",
     "LIC-3YR", "LIC-ENT-SEC-1YR"}

InitSkus ==
    /\ file = Store(<<>>, <<>>)
    /\ cache = file
    /\ products = load_all_products(cache, file)
    /\ now = StartNow
    /\ AtRest
    /\ runs = 0
    /\ args \in [fn : {"_extract_skus_from_page"},
                 text : SeqUpTo(SkuTokens, MaxSkuTokens), model : {"MR46"}]
    /\ result = NotScraped

ApplySkus ==
    /\ args.fn = "_extract_skus_from_page"
    /\ result = NotScraped
    /\ result' = [kind |-> "value",
                  value |-> _extract_skus_from_page(args.text, args.model)]
    /\ UNCHANGED <<storeVars, now, pc, pendingDelay, eolVars, bulkVars, updated_count,
                   ret, histVars, args, urls, delays, scraperVars, authVars>>

NextSkus == ApplySkus

SpecSkus == InitSkus /\ [][NextSkus]_vars

Tiers == {"ENT", "SEC", "ADV"}
Durations == {"1YR", "3YR", "5YR"}

\* the key {duration}_year_{tier}
KeyOf(dur, tier) ==
    CASE dur = "1YR" /\ tier = "ENT" -> "1_year_ent"
      [] dur = "3YR" /\ tier = "ENT" -> "3_year_ent"
      [] dur = "5YR" /\ tier = "ENT" -> "5_year_ent"
      [] dur = "1YR" /\ tier = "SEC" -> "1_year_sec"
      [] dur = "3YR" /\ tier = "SEC" -> "3_year_sec"
      [] dur = "5YR" /\ tier = "SEC" -> "5_year_sec"
      [] dur = "1YR" /\ tier = "ADV" -> "1_year_adv"
      [] dur = "3YR" /\ tier = "ADV" -> "3_year_adv"
      [] dur = "5YR" /\ tier = "ADV" -> "5_year_adv"

\* the token has a tier keyword and a duration
Classified(tok) ==
    /\ \E tier \in Tiers : Has(tok, tier)
    /\ \E dur \in Durations : Has(tok, dur)

\* the tokens of the text that are stored
KeptTokens == {result.value.licenses[key] : key \in DOMAIN result.value.licenses}

\* C24 (as claimed): a LIC- token is kept only when it contains a tier keyword
\* (ENT, SEC, ADV) and a duration (1YR, 3YR, 5YR), and it is stored under the
\* key made of a duration and a tier the token contains; a token lacking
\* either is discarded.
C24_KeyFromOwnTier ==
    (args.fn = "_extract_skus_from_page" /\ result # NotScraped) =>
        /\ \A key \in DOMAIN result.value.licenses :
              LET tok == result.value.licenses[key]
              IN  /\ \E n \in 1..Len(args.text) : args.text[n] = tok
                  /\ IsLicense(tok)
                  /\ \E tier \in Tiers, dur \in Durations :
                        Has(tok, tier) /\ Has(tok, dur) /\ key = KeyOf(dur, tier)
        /\ \A n \in 1..Len(args.text) :
              ~Classified(args.text[n]) => args.text[n] \notin KeptTokens

\* the tier a license key is named after: ent for ENT, adv for SEC and ADV
KeyTier(tok) == IF Has(tok, "ENT") THEN "ENT" ELSE "ADV"

\* the first of the durations the token contains
KeyDuration(tok) ==
    IF Has(tok, "1YR") THEN "1YR" ELSE IF Has(tok, "3YR") THEN "3YR" ELSE "5YR"

\* C24 (amended): a LIC- token is kept only when it contains a tier keyword and
\* a duration, and it is stored under {duration}_year_{tier} where the tier
\* is ent for a token containing ENT and adv for any other token containing
\* SEC or ADV; every such token has its key in the result; a token lacking a
\* tier keyword or a duration is discarded.
C24_KeyFromEntOrAdv ==
    (args.fn = "_extract_skus_from_page" /\ result # NotScraped) =>
        /\ \A key \in DOMAIN result.value.licenses :
              LET tok == result.value.licenses[key]
              IN  /\ \E n \in 1..Len(args.text) : args.text[n] = tok
                  /\ IsLicense(tok)
                  /\ Classified(tok)
                  /\ key = KeyOf(KeyDuration(tok), KeyTier(tok))
        /\ \A n \in 1..Len(args.text) :
              IF IsLicense(args.text[n]) /\ Classified(args.text[n])
              THEN KeyOf(KeyDuration(args.text[n]), KeyTier(args.text[n]))
                       \in DOMAIN result.value.licenses
              ELSE args.text[n] \notin KeptTokens

\* C24 witness: LIC-SEC-1YR is stored under 1_year_adv, and LIC-ENT, which has
\* no duration, is not stored
C24_Witness ==
    /\ args.fn = "_extract_skus_from_page"
    /\ args.text = <<"MR46-HW", "LIC-SEC-1YR", "LIC-ENT">>
    /\ result # NotScraped
    /\ result.value.hardware = "MR46-HW"
    /\ DOMAIN result.value.licenses = {"1_year_adv"}
    /\ result.value.licenses["1_year_adv"] = "LIC-SEC-1YR"

(***************************************************************************)
(* _extract_model_number applied on its own                                *)
(***************************************************************************)
MaxNameTokens == 2

\* the tokens of a product name
NameTokens ==
    {"Meraki", "meraki", "MS225-48FP", "ms225-48fp", "MR46", "mr46", "random"}

InitModel ==
    /\ file = Store(<<>>, <<>>)
    /\ cache = file
    /\ products = load_all_products(cache, file)
    /\ now = StartNow
    /\ AtRest
    /\ runs = 0
    /\ args \in [fn : {"_extract_model_number"},
                 product_name : SeqUpTo(NameTokens, MaxNameTokens)]
    /\ result = "pending"

ApplyModel ==
    /\ args.fn = "_extract_model_number"
    /\ result = "pending"
    /\ result' = _extract_model_number(args.product_name)
    /\ UNCHANGED <<storeVars, now, pc, pendingDelay, eolVars, bulkVars, updated_count,
                   ret, histVars, args, urls, delays, scraperVars, authVars>>

NextModel == ApplyModel

SpecModel == InitModel /\ [][NextModel]_vars

\* product_name.lower(), token by token
LowerName(product_name) == [n \in DOMAIN product_name |-> Lower(product_name[n])]

\* C25: _extract_model_number returns the first match of the pattern or None
\* when nothing matches, and two inputs that differ only in letter case
\* ('Meraki MS225-48FP' and 'meraki ms225-48fp') yield the same model code.
C25_CaseInsensitiveModel ==
    (args.fn = "_extract_model_number" /\ result # "pending") =>
        \A other \in SeqUpTo(NameTokens, MaxNameTokens) :
            LowerName(other) = LowerName(args.product_name) =>
                _extract_model_number(other) = result

\* C26: read-after-write on the product store: when save_product returns,
\* get_products_by_category gives the saved category as the file now holds
\* it, and get_product_by_id gives the saved record as it was just written.
C26_ReadAfterWrite ==
    [][writes' = writes + 1 =>
          \A cat \in Categories :
              /\ get_products_by_category(products', cat) = file'[cat]
              /\ \A n \in 1..Len(file'[cat]) :
                    (n > Len(file[cat]) \/ file'[cat][n] # file[cat][n]) =>
                        get_product_by_id(products', file'[cat][n]["id"])
                            = file'[cat][n]]_vars

(***************************************************************************)
(* The bulk MR flow over a store whose MR product has a hardware SKU       *)
(***************************************************************************)
P_mr46sku == Put(P_mr46, "sku_base", "MR46-HW")

SkuStores == {Store(<<P_mr46sku>>, <<P_mx64>>), Store(<<P_legacy, P_mr46sku>>, <<>>)}

InitSkuMerge ==
    /\ file \in SkuStores
    /\ cache = file
    /\ products = load_all_products(cache, file)
    /\ now = StartNow
    /\ AtRest
    /\ runs = MaxRuns - 1
    /\ args = NoArgs
    /\ result = None

SpecSkuMerge == InitSkuMerge /\ [][NextBulk]_vars

\* C27: a merge of the bulk MR flow never replaces the non-empty sku_base of
\* the existing product by None: the record it persists still has a sku_base
\* and it is not None.
C27_SkuBaseNotLost ==
    [][(/\ pc = "ds_merge"
        /\ HasRecord(specs)
        /\ get_product_by_id(products, Lower(models[i])) # NoProduct
        /\ Get(get_product_by_id(products, Lower(models[i])), "sku_base", None)
               # None)
       => LET persisted == RecordWithId(file'["mr"], Lower(models[i]))
          IN  /\ "sku_base" \in DOMAIN persisted
              /\ persisted["sku_base"] # None]_vars

\* the rows of the EOL table whose end-of-sale text _parse_date passes through
UnparsedEosRows ==
    {row \in EolRowUniverse :
        /\ row.ncols >= 3
        /\ _extract_model_number(row.product) # None
        /\ _parse_date(row.eos_date) # NoDate
        /\ _parse_date(row.eos_date).fmt # "dash"}

\* C28: _determine_status does not fail on a date that is present but not
\* parsed: for an eos_date that is a text other than YYYY-MM-DD it answers
\* Active whatever eol_announced is, and an EOL row whose end-of-sale text
\* is passed through by _parse_date gets the status Active in the map.
C28_UnparsedDateIsActive ==
    (args.fn = "_determine_status" /\ result # None) =>
        /\ result \in Statuses
        /\ (args.eos_date # NoDate /\ args.eos_date.fmt # "dash") =>
              result = "Active"
        /\ \A row \in UnparsedEosRows :
              LET key == Lower(_extract_model_number(row.product))
                  map == ParseEolRows(<<row>>, 1, EmptyDict, args.today)
              IN  /\ key \in DOMAIN map
                  /\ map[key].eos_date = row.eos_date
                  /\ map[key].status = "Active"

\* C28 witness: eos_date is the text 13/01/2026, which no format parses, and
\* eol_announced is a date; the status is Active
C28_Witness ==
    /\ args.fn = "_determine_status"
    /\ args.eos_date = Slash(13, 1, 2026)
    /\ args.eol_announced = IsoDate(1)
    /\ UnparsedEosRows # {}
    /\ result = "Active"

\* C29: a Database EOL update runs to completion and returns a count for
\* every store content: it is never ended by an error raised on a product
\* whose display name is missing or has no token.
C29_EolUpdateCompletes ==
    ret.flow = "eol" =>
        /\ ret.kind # "raised"
        /\ pc = "done" => ret.kind = "count"

(***************************************************************************)
(* Login with account lockout: utils/auth.py.  In this flow the clock      *)
(* counts minutes; the document store returns what was written to it.      *)
(***************************************************************************)
\* timedelta(minutes=30)
LockMinutes == 30

\* "if attempts >= 5"
MaxAttempts == 5

\* how far the clock moves in one step, and how far it runs
TickMinutes == 15
MaxClock == 60

\* Mutant of LockDue: the account is locked one failed attempt later
LockDueLate(attempts) == attempts > MaxAttempts

\* Lock account after 5 failed attempts
LockDue(attempts) == attempts >= MaxAttempts

\* check_account_locked: locked_until is set and not reached
IsLocked(doc, t) == doc.locked_until # NoLock /\ t < doc.locked_until

\* check_account_locked: locked_until is set and reached
IsExpired(doc, t) == doc.locked_until # NoLock /\ ~(t < doc.locked_until)

\* increment_login_attempts: the document it writes
increment_login_attempts(doc, t) ==
    LET attempts == doc.login_attempts + 1
    IN  UserDoc(attempts,
                IF LockDue(attempts) THEN t + LockMinutes ELSE doc.locked_until)

\* reset_login_attempts, and the unlock of check_account_locked
reset_login_attempts == UserDoc(0, NoLock)

InitAuth ==
    /\ file = Store(<<>>, <<>>)
    /\ cache = file
    /\ products = load_all_products(cache, file)
    /\ now = 0
    /\ AtRest
    /\ runs = 0
    /\ args = NoArgs
    /\ result = None

restVars == <<storeVars, pc, pendingDelay, eolVars, bulkVars, updated_count, ret,
              histVars, pureVars, urls, delays, scraperVars>>

\* login(username, password) is called for the user; the user is found
LoginCall ==
    /\ login_call.pc = "idle"
    /\ \E ok \in BOOLEAN :
          login_call' = [pc |-> "check", password_ok |-> ok, ret |-> "none"]
    /\ UNCHANGED <<user_doc, session_state, failures, now, restVars>>

\* check_account_locked and the early return of login
LoginCheck ==
    /\ login_call.pc = "check"
    /\ IF IsLocked(user_doc, now)
       THEN /\ login_call' = [login_call EXCEPT !.pc = "idle", !.ret = "locked"]
            /\ UNCHANGED <<user_doc, failures>>
       ELSE /\ login_call' = [login_call EXCEPT !.pc = "verify"]
            /\ user_doc' = IF IsExpired(user_doc, now)
                           THEN reset_login_attempts ELSE user_doc
            /\ failures' = IF IsExpired(user_doc, now) THEN 0 ELSE failures
    /\ UNCHANGED <<session_state, now, restVars>>

\* verify_password and the two branches of login after it
LoginVerify ==
    /\ login_call.pc = "verify"
    /\ IF login_call.password_ok
       THEN /\ user_doc' = reset_login_attempts
            /\ session_state' = [authenticated |-> TRUE]
            /\ failures' = 0
            /\ login_call' = [login_call EXCEPT !.pc = "idle", !.ret = "ok"]
       ELSE /\ user_doc' = increment_login_attempts(user_doc, now)
            /\ failures' = failures + 1
            /\ login_call' =
                  [login_call EXCEPT
                      !.pc = "idle",
                      !.ret = IF MaxAttempts - (user_doc.login_attempts + 1) > 0
                              THEN "wrong" ELSE "locked_now"]
            /\ UNCHANGED session_state
    /\ UNCHANGED <<now, restVars>>

\* logout
Logout ==
    /\ login_call.pc = "idle"
    /\ session_state.authenticated
    /\ session_state' = NoSession
    /\ UNCHANGED <<user_doc, login_call, failures, now, restVars>>

\* time passes
AuthTick ==
    /\ now + TickMinutes <= MaxClock
    /\ now' = now + TickMinutes
    /\ UNCHANGED <<authVars, restVars>>

NextAuth ==
    \/ LoginCall
    \/ LoginCheck
    \/ LoginVerify
    \/ Logout
    \/ AuthTick

SpecAuth == InitAuth /\ [][NextAuth]_vars

\* the counter is the number of failed password attempts since it last began,
\* and the account has a lock exactly when that number has reached 5
CounterAndLock ==
    /\ user_doc.login_attempts = failures
    /\ user_doc.locked_until # NoLock <=> failures >= MaxAttempts

\* the failed attempt that makes 5 sets locked_until 30 minutes ahead
FifthFailureLocks ==
    (failures' = failures + 1 /\ failures' >= MaxAttempts) =>
        user_doc'.locked_until = now + LockMinutes

\* until locked_until a login is rejected whatever the password, and it
\* changes neither the document nor the session
LockedLoginRejected ==
    (/\ login_call.pc = "check"
     /\ login_call' # login_call
     /\ user_doc.locked_until # NoLock
     /\ now < user_doc.locked_until)
    => /\ login_call'.pc = "idle"
       /\ login_call'.ret = "locked"
       /\ user_doc' = user_doc
       /\ session_state' = session_state

\* a successful login resets the counter and clears the lock
SuccessResets ==
    (login_call'.ret = "ok" /\ login_call.ret # "ok") =>
        /\ user_doc' = UserDoc(0, NoLock)
        /\ session_state'.authenticated

\* the first login after locked_until resets the counter and clears the lock
\* before it looks at the password
ExpiryResets ==
    (/\ login_call.pc = "check"
     /\ login_call' # login_call
     /\ user_doc.locked_until # NoLock
     /\ now >= user_doc.locked_until)
    => /\ user_doc' = UserDoc(0, NoLock)
       /\ login_call'.pc = "verify"

\* C30: account lockout.  With the 5th failed password attempt since the
\* last successful login locked_until is set 30 minutes ahead; until then
\* every login of the user is rejected, with the right password too, and
\* changes neither login_attempts nor the session; a successful login, and
\* the first login after the lock has expired, reset login_attempts to 0 and
\* clear locked_until.
C30_AccountLockout ==
    /\ []CounterAndLock
    /\ [][FifthFailureLocks /\ LockedLoginRejected /\ SuccessResets
            /\ ExpiryResets]_vars

\* C30 witness: the account is locked after 5 failed attempts and a login
\* with the right password has just been rejected, without a session
C30_Witness ==
    /\ user_doc.login_attempts = MaxAttempts
    /\ now < user_doc.locked_until
    /\ login_call.pc = "idle"
    /\ login_call.password_ok
    /\ login_call.ret = "locked"
    /\ ~session_state.authenticated

====
